---- MODULE Spec2Model ----
(***************************************************************************)
(* The toast store of src/src/hooks/use-toast.ts: the module-scoped state  *)
(* (count, toastTimeouts, the pending removal timers, listeners,           *)
(* memoryState), the reducer with its side effect on the removal queue,    *)
(* dispatch, toast() with the handle it returns, and the subscription      *)
(* life cycle of a component that calls useToast().                        *)
(*                                                                         *)
(* JavaScript runs each handler to completion on one thread, so every      *)
(* handler (a toast() call, a dismiss, a timer callback, an effect) is one *)
(* atomic action.  All removal timers are created with the same delay      *)
(* TOAST_REMOVE_DELAY, so they expire in the order they were created: the  *)
(* pending timers are a FIFO queue and only its head can fire.             *)
(*                                                                         *)
(* An object with optional fields (a toast record, an action) is a         *)
(* function whose DOMAIN holds the fields that are present; a missing      *)
(* field is JavaScript's undefined.                                        *)
(*                                                                         *)
(* After the store come the other parts of the program, each with a        *)
(* specification of its own: the font-size and line-height commands of the *)
(* editor (SpecEditor), the hook useIsMobile (SpecMobile) and the matcher  *)
(* of the middleware (SpecMatcher).                                        *)
(***************************************************************************)
EXTENDS Integers, Sequences, FiniteSets, TLC

VARIABLES
    count,          \* use-toast.ts:37   let count = 0
    memoryState,    \* use-toast.ts:195  let memoryState: State = { toasts: [] }
    toastTimeouts,  \* use-toast.ts:81   keys of the Map toastId -> timeout handle
    timers,         \* pending setTimeout callbacks, oldest first; each holds its toastId
    listeners,      \* use-toast.ts:191  the listener array (setState of each subscriber)
    handles,        \* ids of the handles toast() has returned so far
    returned,       \* id of the handle the latest toast() call returned, "" before the first
    pc,             \* per component: "unmounted", "rendered" (effect not yet run), "subscribed"
    compState,      \* per component: the value of its useState hook
    dirty,          \* per component: setState was called and the re-render is still due
    lastOp,         \* history: the operation that made the last step
    lastAction,     \* history: the action the last step dispatched, or NoAction
    prev,           \* history: memoryState, toastTimeouts, timers, listeners before that dispatch
    notified,       \* history: the listener calls the last dispatch made, in order
    editor,         \* the editor the font-size and line-height commands act on
    mobile,         \* a component that calls useIsMobile(), with the window it measures
    request         \* a request path and what the middleware matcher said about it

vars == <<count, memoryState, toastTimeouts, timers, listeners, handles, returned,
          pc, compState, dirty, lastOp, lastAction, prev, notified,
          editor, mobile, request>>

\* the variables of the toast store, and those of the rest of the program
storeVars == <<count, memoryState, toastTimeouts, timers, listeners, handles, returned,
               pc, compState, dirty, lastOp, lastAction, prev, notified>>

otherVars == <<editor, mobile, request>>

-----------------------------------------------------------------------------
(* Constants of the program and bounds of the model *)

TOAST_LIMIT == 1

\* Number.MAX_SAFE_INTEGER (2^53 - 1) scaled down to a value TLC can count to
\* and wrap around (SpecWrap).
MAX_SAFE_INTEGER == 4

\* toast() is called at most MaxToasts times in Spec.
MaxToasts == 2

\* toast() is called at most MaxHookToasts times in SpecHook.
MaxHookToasts == 1

\* Longest list the reducer is applied to in SpecReducer.
MaxLen == 2

\* The components that call useToast()
Components == {"A", "B"}

-----------------------------------------------------------------------------
(* Helpers for JavaScript values *)

Digits == <<"0", "1", "2", "3", "4", "5", "6", "7", "8", "9">>

\* Number.prototype.toString for a non-negative integer
RECURSIVE toString(_)
toString(n) ==
    IF n < 10 THEN Digits[n + 1]
    ELSE toString(n \div 10) \o Digits[(n % 10) + 1]

\* obj.f is present (not undefined)
Has(obj, f) == f \in DOMAIN obj

\* { ...a, ...b }
Spread(a, b) ==
    [f \in DOMAIN a \cup DOMAIN b |-> IF f \in DOMAIN b THEN b[f] ELSE a[f]]

\* Array.prototype.slice(0, n)
Slice(s, n) == SubSeq(s, 1, IF n < Len(s) THEN n ELSE Len(s))

\* a filter that stops at the first record it drops
RECURSIVE filterOutFirst(_, _)
filterOutFirst(toasts, toastId) ==
    IF toasts = <<>> THEN <<>>
    ELSE IF Head(toasts).id # toastId
         THEN <<Head(toasts)>> \o filterOutFirst(Tail(toasts), toastId)
         ELSE Tail(toasts)

\* toasts.filter((t) => t.id !== toastId)
RECURSIVE filterOut(_, _)
filterOut(toasts, toastId) ==
    IF toasts = <<>> THEN <<>>
    ELSE IF Head(toasts).id # toastId
         THEN <<Head(toasts)>> \o filterOut(Tail(toasts), toastId)
         ELSE filterOut(Tail(toasts), toastId)

\* Array.prototype.indexOf, 1-based; 0 when absent (JavaScript's -1)
IndexOf(s, x) ==
    IF \E i \in 1..Len(s) : s[i] = x
    THEN CHOOSE i \in 1..Len(s) : s[i] = x /\ \A j \in 1..(i - 1) : s[j] # x
    ELSE 0

\* Array.prototype.splice(index, 1)
Splice(s, i) == SubSeq(s, 1, i - 1) \o SubSeq(s, i + 1, Len(s))

Range(s) == {s[i] : i \in 1..Len(s)}

-----------------------------------------------------------------------------
(* genId *)

genId(c) == (c + 1) % MAX_SAFE_INTEGER

-----------------------------------------------------------------------------
(* The removal queue.  q is [toastTimeouts, timers]. *)

\* addToRemoveQueue without the toastTimeouts.has(toastId) test
addToRemoveQueueNoCheck(toastId, q) ==
    [toastTimeouts |-> q.toastTimeouts \cup {toastId},
     timers        |-> Append(q.timers, toastId)]

addToRemoveQueue(toastId, q) ==
    IF toastId \in q.toastTimeouts
    THEN q
    ELSE [toastTimeouts |-> q.toastTimeouts \cup {toastId},
          timers        |-> Append(q.timers, toastId)]

\* the forEach cut short after the first toast
addAllToRemoveQueueFirstOnly(toasts, q) ==
    IF toasts = <<>> THEN q ELSE addToRemoveQueue(Head(toasts).id, q)

\* state.toasts.forEach((toast) => addToRemoveQueue(toast.id))
RECURSIVE addAllToRemoveQueue(_, _)
addAllToRemoveQueue(toasts, q) ==
    IF toasts = <<>> THEN q
    ELSE addAllToRemoveQueue(Tail(toasts), addToRemoveQueue(Head(toasts).id, q))

-----------------------------------------------------------------------------
(* The reducer: the state it returns, one operator per case *)

\* `if (toastId)`: the id is present and is not the empty string
Truthy(action) == Has(action, "toastId") /\ action.toastId # ""

\* reduceAdd without the truncation to TOAST_LIMIT
reduceAddNoSlice(state, action) ==
    [toasts |-> <<action.toast>> \o state.toasts]

\* reduceAdd that puts the new record last
reduceAddAppend(state, action) ==
    [toasts |-> Slice(state.toasts \o <<action.toast>>, TOAST_LIMIT)]

reduceAdd(state, action) ==
    [toasts |-> Slice(<<action.toast>> \o state.toasts, TOAST_LIMIT)]

\* reduceUpdate that puts the partial in the record's place
reduceUpdateReplace(state, action) ==
    [toasts |-> [i \in 1..Len(state.toasts) |->
        LET t == state.toasts[i] IN
        IF Has(action.toast, "id") /\ t.id = action.toast.id
        THEN action.toast
        ELSE t]]

reduceUpdate(state, action) ==
    [toasts |-> [i \in 1..Len(state.toasts) |->
        LET t == state.toasts[i] IN
        IF Has(action.toast, "id") /\ t.id = action.toast.id
        THEN Spread(t, action.toast)
        ELSE t]]

\* reduceDismiss that closes every record, whatever the id
reduceDismissAll(state, action) ==
    [toasts |-> [i \in 1..Len(state.toasts) |->
        Spread(state.toasts[i], [open |-> FALSE])]]

reduceDismiss(state, action) ==
    [toasts |-> [i \in 1..Len(state.toasts) |->
        LET t == state.toasts[i] IN
        IF (Has(action, "toastId") /\ t.id = action.toastId) \/ ~Has(action, "toastId")
        THEN Spread(t, [open |-> FALSE])
        ELSE t]]

\* reduceRemove whose filter keeps the records it should delete
reduceRemoveInverted(state, action) ==
    IF ~Has(action, "toastId")
    THEN [toasts |-> <<>>]
    ELSE [toasts |-> SelectSeq(state.toasts, LAMBDA t : t.id = action.toastId)]

reduceRemove(state, action) ==
    IF ~Has(action, "toastId")
    THEN [toasts |-> <<>>]
    ELSE [toasts |-> filterOut(state.toasts, action.toastId)]

reducer(state, action) ==
    CASE action.type = "ADD_TOAST"     -> reduceAdd(state, action)
      [] action.type = "UPDATE_TOAST"  -> reduceUpdate(state, action)
      [] action.type = "DISMISS_TOAST" -> reduceDismiss(state, action)
      [] action.type = "REMOVE_TOAST"  -> reduceRemove(state, action)

\* The side effect of the DISMISS_TOAST case on the removal queue
reducerQueue(state, action, q) ==
    IF action.type = "DISMISS_TOAST"
    THEN IF Truthy(action)
         THEN addToRemoveQueue(action.toastId, q)
         ELSE addAllToRemoveQueue(state.toasts, q)
    ELSE q

-----------------------------------------------------------------------------
(* dispatch *)

NoAction == [type |-> "NONE"]

Queue == [toastTimeouts |-> toastTimeouts, timers |-> timers]

Snapshot == [state |-> memoryState, toastTimeouts |-> toastTimeouts,
             timers |-> timers, listeners |-> listeners]

\* a forEach that misses the last listener
notifyAllButLast(ls, state) ==
    [i \in 1..(Len(ls) - 1) |-> [listener |-> ls[i], state |-> state]]

\* listeners.forEach((listener) => listener(memoryState)), as the calls made
notifyAll(ls, state) == [i \in 1..Len(ls) |-> [listener |-> ls[i], state |-> state]]

\* dispatch(action) with the removal queue q at the moment of the call
\* (the timer callback deletes its own entry before it dispatches).
dispatch(action, q) ==
    LET newState == reducer(memoryState, action)
        newQueue == reducerQueue(memoryState, action, q)
        calls    == notifyAll(listeners, newState)
    IN  /\ memoryState' = newState
        /\ toastTimeouts' = newQueue.toastTimeouts
        /\ timers' = newQueue.timers
        /\ notified' = calls
        /\ compState' = [c \in Components |->
               IF \E i \in 1..Len(calls) : calls[i].listener = c
               THEN calls[CHOOSE i \in 1..Len(calls) :
                              /\ calls[i].listener = c
                              /\ \A j \in (i + 1)..Len(calls) : calls[j].listener # c].state
               ELSE compState[c]]
        /\ dirty' = [c \in Components |->
               dirty[c] \/ \E i \in 1..Len(calls) : calls[i].listener = c]
        /\ lastAction' = action
        /\ prev' = Snapshot
        /\ UNCHANGED <<listeners, pc>>
        /\ UNCHANGED otherVars

-----------------------------------------------------------------------------
(* The rest of the program does not touch the toast store, nor the store it *)

\* no editor has been created, no component calls useIsMobile(), no request
\* has come in
NoEditor == [cmd |-> "none"]

NoMobile == [pc |-> "none"]

NoRequest == [path |-> "", matched |-> "none"]

OtherIdle ==
    /\ editor = NoEditor
    /\ mobile = NoMobile
    /\ request = NoRequest

-----------------------------------------------------------------------------
(* Inputs *)

\* what a caller passes to useToast().dismiss(toastId?), when it passes a
\* string: the id of a toast made so far, an id no toast has (the next one
\* genId will return), or the empty string
DismissArgs == handles \cup {toString(genId(count)), ""}

\* props of a toast() call: a title, with or without an open flag of the caller's
ToastProps == {[title |-> "Saved"], [title |-> "Saved", open |-> FALSE]}

\* props of a handle's update(): a new title, or the open flag
UpdateProps == {[title |-> "Failed"], [open |-> TRUE], [open |-> FALSE]}

-----------------------------------------------------------------------------
(* The store's operations *)

\* the module scope of use-toast.ts once the module has loaded
StoreIdle ==
    /\ count = 0
    /\ memoryState = [toasts |-> <<>>]
    /\ toastTimeouts = {}
    /\ timers = <<>>
    /\ listeners = <<>>
    /\ handles = {}
    /\ returned = ""
    /\ pc = [c \in Components |-> "unmounted"]
    /\ compState = [c \in Components |-> [toasts |-> <<>>]]
    /\ dirty = [c \in Components |-> FALSE]
    /\ lastOp = "init"
    /\ lastAction = NoAction
    /\ prev = Snapshot
    /\ notified = <<>>

Init ==
    /\ StoreIdle
    /\ OtherIdle

\* the record with the caller's open flag winning over open: true
newToastPropsLast(props, id) == Spread([id |-> id, open |-> TRUE], props)

\* { ...props, id, open: true, onOpenChange }: the record toast() adds.  Its
\* onOpenChange(false) calls the handle's dismiss (HandleDismiss below).
newToast(props, id) == Spread(props, [id |-> id, open |-> TRUE])

\* toast(props): genId, then dispatch ADD_TOAST with { ...props, id, open: true }
ToastUpTo(n) ==
    /\ count < n
    /\ \E props \in ToastProps :
        LET id == toString(genId(count)) IN
        /\ count' = genId(count)
        /\ handles' = handles \cup {id}
        /\ returned' = id
        /\ dispatch([type |-> "ADD_TOAST", toast |-> newToast(props, id)], Queue)
    /\ lastOp' = "toast"

Toast == ToastUpTo(MaxToasts)

\* handle.update(props): dispatch UPDATE_TOAST with { ...props, id }
HandleUpdate ==
    /\ \E id \in handles, props \in UpdateProps :
        dispatch([type |-> "UPDATE_TOAST", toast |-> Spread(props, [id |-> id])], Queue)
    /\ lastOp' = "update"
    /\ UNCHANGED <<count, handles, returned>>

\* handle.dismiss(): dispatch DISMISS_TOAST with the handle's id
HandleDismiss ==
    /\ \E id \in handles :
        dispatch([type |-> "DISMISS_TOAST", toastId |-> id], Queue)
    /\ lastOp' = "dismiss"
    /\ UNCHANGED <<count, handles, returned>>

\* useToast().dismiss(toastId?): any string, or no argument
UseToastDismiss ==
    /\ \/ \E id \in DismissArgs :
            dispatch([type |-> "DISMISS_TOAST", toastId |-> id], Queue)
       \/ dispatch([type |-> "DISMISS_TOAST"], Queue)
    /\ lastOp' = "dismiss"
    /\ UNCHANGED <<count, handles, returned>>

\* The oldest pending timer expires: delete its entry, dispatch REMOVE_TOAST
TimerFire ==
    /\ timers # <<>>
    /\ LET toastId == Head(timers) IN
        dispatch([type |-> "REMOVE_TOAST", toastId |-> toastId],
                 [toastTimeouts |-> toastTimeouts \ {toastId}, timers |-> Tail(timers)])
    /\ lastOp' = "timer"
    /\ UNCHANGED <<count, handles, returned>>

-----------------------------------------------------------------------------
(* A component that calls useToast() *)

NoDispatch ==
    /\ lastOp' = "hook"
    /\ lastAction' = NoAction
    /\ notified' = <<>>
    /\ prev' = Snapshot
    /\ UNCHANGED <<count, memoryState, toastTimeouts, timers, handles, returned>>
    /\ UNCHANGED otherVars

\* first render: useState(memoryState)
Mount ==
    /\ \E c \in Components :
        /\ pc[c] = "unmounted"
        /\ pc' = [pc EXCEPT ![c] = "rendered"]
        /\ compState' = [compState EXCEPT ![c] = memoryState]
    /\ NoDispatch
    /\ UNCHANGED <<listeners, dirty>>

\* the effect after the first render: listeners.push(setState)
Effect ==
    /\ \E c \in Components :
        /\ pc[c] = "rendered"
        /\ pc' = [pc EXCEPT ![c] = "subscribed"]
        /\ listeners' = Append(listeners, c)
    /\ NoDispatch
    /\ UNCHANGED <<compState, dirty>>

\* the effect's cleanup: splice the setter out of the array when it is there
cleanup(ls, c) == IF IndexOf(ls, c) > 0 THEN Splice(ls, IndexOf(ls, c)) ELSE ls

\* re-render after setState: the dependency [state] changed, so the cleanup
\* runs and then the effect again
Rerender ==
    /\ \E c \in Components :
        /\ pc[c] = "subscribed"
        /\ dirty[c]
        /\ dirty' = [dirty EXCEPT ![c] = FALSE]
        /\ listeners' = Append(cleanup(listeners, c), c)
    /\ NoDispatch
    /\ UNCHANGED <<pc, compState>>

\* unmount: the cleanup of the effect, if it ran
Unmount ==
    /\ \E c \in Components :
        /\ pc[c] # "unmounted"
        /\ pc' = [pc EXCEPT ![c] = "unmounted"]
        /\ listeners' = IF pc[c] = "subscribed" THEN cleanup(listeners, c) ELSE listeners
        /\ dirty' = [dirty EXCEPT ![c] = FALSE]
        /\ compState' = [compState EXCEPT ![c] = [toasts |-> <<>>]]
    /\ NoDispatch

-----------------------------------------------------------------------------
(* The store as the application drives it, no component subscribed *)

Next ==
    \/ Toast
    \/ HandleUpdate
    \/ HandleDismiss
    \/ UseToastDismiss
    \/ TimerFire

Spec == Init /\ [][Next]_vars

\* A pending timer expires once its delay has passed
FairSpec == Spec /\ WF_vars(TimerFire)

-----------------------------------------------------------------------------
(* The store with the components that subscribe to it *)

HookToast == ToastUpTo(MaxHookToasts)

NextHook ==
    \/ HookToast
    \/ HandleUpdate
    \/ HandleDismiss
    \/ UseToastDismiss
    \/ TimerFire
    \/ Mount
    \/ Effect
    \/ Rerender
    \/ Unmount

SpecHook == Init /\ [][NextHook]_vars

-----------------------------------------------------------------------------
(* Any action dispatched to the store, starting from the empty store *)

RawIds == {"1", "2"}

RawToasts ==
    {[id |-> i, open |-> o] : i \in RawIds, o \in BOOLEAN}
    \cup {[id |-> i, title |-> "Saved", open |-> o] : i \in RawIds, o \in BOOLEAN}

RawPartials ==
    {[id |-> i, title |-> "Failed"] : i \in RawIds}
    \cup {[id |-> i, open |-> o] : i \in RawIds, o \in BOOLEAN}
    \cup {[title |-> "Failed"]}

RawActions ==
    {[type |-> "ADD_TOAST", toast |-> t] : t \in RawToasts}
    \cup {[type |-> "UPDATE_TOAST", toast |-> t] : t \in RawPartials}
    \cup {[type |-> "DISMISS_TOAST", toastId |-> i] : i \in RawIds \cup {""}}
    \cup {[type |-> "DISMISS_TOAST"]}
    \cup {[type |-> "REMOVE_TOAST", toastId |-> i] : i \in RawIds \cup {""}}
    \cup {[type |-> "REMOVE_TOAST"]}

RawDispatch ==
    /\ \E action \in RawActions : dispatch(action, Queue)
    /\ lastOp' = "dispatch"
    /\ UNCHANGED <<count, handles, returned>>

NextDispatch ==
    \/ RawDispatch
    \/ TimerFire

SpecDispatch == Init /\ [][NextDispatch]_vars

-----------------------------------------------------------------------------
(* The reducer applied once to any list and any removal queue *)

RECURSIVE ListsUpTo(_)
ListsUpTo(n) ==
    IF n = 0 THEN {<<>>}
    ELSE ListsUpTo(n - 1)
         \cup {Append(l, t) : l \in {x \in ListsUpTo(n - 1) : Len(x) = n - 1}, t \in RawToasts}

\* the removal queues over RawIds: no id twice
RawQueues ==
    {<<>>} \cup {<<i>> : i \in RawIds}
    \cup {q \in RawIds \X RawIds : q[1] # q[2]}

InitReducer ==
    /\ count = 0
    /\ memoryState \in {[toasts |-> l] : l \in ListsUpTo(MaxLen)}
    /\ timers \in RawQueues
    /\ toastTimeouts = Range(timers)
    /\ listeners = <<>>
    /\ handles = {}
    /\ returned = ""
    /\ pc = [c \in Components |-> "unmounted"]
    /\ compState = [c \in Components |-> [toasts |-> <<>>]]
    /\ dirty = [c \in Components |-> FALSE]
    /\ lastOp = "init"
    /\ lastAction = NoAction
    /\ prev = Snapshot
    /\ OtherIdle
    /\ notified = <<>>

ApplyReducer ==
    /\ lastOp = "init"
    /\ RawDispatch

ApplyTimer ==
    /\ lastOp = "init"
    /\ TimerFire

NextReducer ==
    \/ ApplyReducer
    \/ ApplyTimer

SpecReducer == InitReducer /\ [][NextReducer]_vars

-----------------------------------------------------------------------------
(* Properties *)

Toasts == memoryState.toasts

PrevToasts == prev.state.toasts

Min(a, b) == IF a < b THEN a ELSE b

\* C1: from the empty store, whatever actions are dispatched and whatever
\* timers fire, the list never holds more than TOAST_LIMIT records.
C1_LengthWithinLimit == Len(Toasts) <= TOAST_LIMIT

\* An ADD_TOAST arrived at a list that was already full.
C1_Witness ==
    /\ lastAction.type = "ADD_TOAST"
    /\ Len(PrevToasts) = TOAST_LIMIT
    /\ Len(Toasts) = TOAST_LIMIT

\* C2: ADD(t) on a list L gives the first TOAST_LIMIT elements of t followed
\* by L: t is first, the elements after it are L's in order, and with the
\* limit of 1 nothing of L is left, whatever L's records were.
C2_AddPrependsAndTruncates ==
    lastAction.type = "ADD_TOAST" =>
        /\ Len(Toasts) = Min(Len(PrevToasts) + 1, TOAST_LIMIT)
        /\ Toasts[1] = lastAction.toast
        /\ \A i \in 2..Len(Toasts) : Toasts[i] = PrevToasts[i - 1]
        /\ Toasts = <<lastAction.toast>>

\* An ADD evicted a closed record whose removal timer was pending.
C2_Witness ==
    /\ lastAction.type = "ADD_TOAST"
    /\ Len(PrevToasts) = 2
    /\ ~PrevToasts[1].open
    /\ PrevToasts[1].id \in prev.toastTimeouts
    /\ PrevToasts[1].id # lastAction.toast.id
    /\ PrevToasts[2].open
    /\ Toasts = <<lastAction.toast>>

\* the ids a DISMISS names in Spec: those of the toasts made and the next one
StoreIds == {toString(genId(c)) : c \in 0..MaxToasts}

HasId(toasts, id) == \E i \in 1..Len(toasts) : toasts[i].id = id

Dismissed(id) == lastAction = [type |-> "DISMISS_TOAST", toastId |-> id]

RemovedByTimer(id) ==
    /\ lastOp = "timer"
    /\ lastAction = [type |-> "REMOVE_TOAST", toastId |-> id]
    /\ ~HasId(Toasts, id)

\* C3: with pending timers eventually firing, every DISMISS(id) of a
\* non-empty id (the ids toasts have; `if (toastId)` takes the empty string
\* for no id) is followed by the timer's REMOVE(id), and right after that
\* REMOVE no record with that id is in the list.  The DISMISS may find a timer
\* for the id already pending.
C3_DismissLeadsToRemove == \A id \in StoreIds : Dismissed(id) ~> RemovedByTimer(id)

\* The timer of a dismissed record fired and took the record out of the list.
C3_Witness ==
    /\ lastOp = "timer"
    /\ Len(PrevToasts) = 1
    /\ PrevToasts[1].id = lastAction.toastId
    /\ ~PrevToasts[1].open
    /\ RemovedByTimer(lastAction.toastId)

\* a DISMISS_TOAST with an id that `if (toastId)` accepts
DismissWithId == lastAction.type = "DISMISS_TOAST" /\ Truthy(lastAction)

\* what DISMISS(id) does to the list: the matching records closed, the rest as they were
DismissClosesMatching ==
    /\ Len(Toasts) = Len(PrevToasts)
    /\ \A i \in 1..Len(Toasts) :
        IF PrevToasts[i].id = lastAction.toastId
        THEN /\ ~Toasts[i].open
             /\ DOMAIN Toasts[i] = DOMAIN PrevToasts[i] \cup {"open"}
             /\ \A f \in DOMAIN PrevToasts[i] \ {"open"} : Toasts[i][f] = PrevToasts[i][f]
        ELSE Toasts[i] = PrevToasts[i]

\* the ids for which the last dispatch created a timer
NewTimerIds == Range(timers) \ Range(prev.timers)

\* C4 as stated: DISMISS(id) closes the matching record, leaves the others,
\* and creates timers only for ids of records it closed.
C4_TimersOnlyForClosedRecords ==
    DismissWithId =>
        /\ DismissClosesMatching
        /\ NewTimerIds \subseteq
               {PrevToasts[i].id : i \in {j \in 1..Len(PrevToasts) :
                                              PrevToasts[j].id = lastAction.toastId}}

\* C4 (amended): DISMISS(id) with a non-empty id closes the matching record,
\* leaves every other record unchanged, and schedules a removal timer for
\* that id itself, unless one is pending, whether or not a record has the id;
\* no other timer is created.
C4_DismissSchedulesGivenId ==
    DismissWithId =>
        /\ DismissClosesMatching
        /\ toastTimeouts = prev.toastTimeouts \cup {lastAction.toastId}
        /\ timers = IF lastAction.toastId \in prev.toastTimeouts
                    THEN prev.timers
                    ELSE Append(prev.timers, lastAction.toastId)

\* The handle of an evicted toast was dismissed: a timer was created for an id
\* no record has, and the open record of the other toast was left alone.
C4_Witness ==
    /\ DismissWithId
    /\ lastAction.toastId \in handles
    /\ Len(PrevToasts) = 1
    /\ PrevToasts[1].id # lastAction.toastId
    /\ Toasts[1].open
    /\ lastAction.toastId \in NewTimerIds

\* C5: DISMISS with no id, on any list, leaves every record with open=false
\* and a removal timer pending for its id; the ids and their order, and the
\* other fields, are those of the list before.
C5_DismissAllClosesAndSchedules ==
    lastAction = [type |-> "DISMISS_TOAST"] =>
        /\ Len(Toasts) = Len(PrevToasts)
        /\ \A i \in 1..Len(Toasts) :
            /\ ~Toasts[i].open
            /\ Toasts[i].id = PrevToasts[i].id
            /\ \A f \in DOMAIN PrevToasts[i] \ {"open"} : Toasts[i][f] = PrevToasts[i][f]
            /\ Toasts[i].id \in toastTimeouts
            /\ Toasts[i].id \in Range(timers)

\* DISMISS with no id closed two open records of different ids, one whose
\* timer was already pending and one whose timer it created.
C5_Witness ==
    /\ lastAction = [type |-> "DISMISS_TOAST"]
    /\ Len(PrevToasts) = 2
    /\ PrevToasts[1].open /\ PrevToasts[2].open
    /\ PrevToasts[1].id \in prev.toastTimeouts
    /\ PrevToasts[2].id \notin prev.toastTimeouts
    /\ PrevToasts[2].id \in toastTimeouts
    /\ ~Toasts[1].open /\ ~Toasts[2].open

NoDuplicates(s) == \A i, j \in 1..Len(s) : s[i] = s[j] => i = j

\* C6: no id has two pending timers; toastTimeouts has an entry for exactly
\* the ids with a pending timer; a DISMISS of an id whose timer is pending
\* leaves the pending timers and their order as they were; an entry leaves
\* the map only when its own timer, the oldest one, fires.
C6_OneTimerPerId ==
    /\ NoDuplicates(timers)
    /\ toastTimeouts = Range(timers)
    /\ (DismissWithId /\ lastAction.toastId \in prev.toastTimeouts) =>
            (timers = prev.timers /\ toastTimeouts = prev.toastTimeouts)
    /\ prev.toastTimeouts \ toastTimeouts # {} =>
            /\ lastOp = "timer"
            /\ prev.toastTimeouts \ toastTimeouts = {lastAction.toastId}
            /\ lastAction.toastId = Head(prev.timers)
            /\ timers = Tail(prev.timers)

\* An id was dismissed again while its timer was pending with a younger
\* timer queued behind it.
C6_Witness ==
    /\ DismissWithId
    /\ Len(prev.timers) = 2
    /\ prev.timers[1] = lastAction.toastId
    /\ timers = prev.timers

\* C7: UPDATE(partial) gives each record whose id is partial.id the fields of
\* partial and keeps its other fields; every other record, the order and the
\* length are as before, and with no record of that id the list is unchanged.
C7_UpdateMergesMatching ==
    lastAction.type = "UPDATE_TOAST" =>
        LET partial == lastAction.toast
            Matches(t) == Has(partial, "id") /\ t.id = partial.id
        IN  /\ Len(Toasts) = Len(PrevToasts)
            /\ \A i \in 1..Len(Toasts) :
                IF Matches(PrevToasts[i])
                THEN /\ DOMAIN Toasts[i] = DOMAIN PrevToasts[i] \cup DOMAIN partial
                     /\ \A f \in DOMAIN partial : Toasts[i][f] = partial[f]
                     /\ \A f \in DOMAIN PrevToasts[i] \ DOMAIN partial :
                            Toasts[i][f] = PrevToasts[i][f]
                ELSE Toasts[i] = PrevToasts[i]
            /\ (\A i \in 1..Len(PrevToasts) : ~Matches(PrevToasts[i])) => Toasts = PrevToasts

\* An UPDATE gave a title to the second of two records, which had none, kept
\* that record's open flag and left the first record as it was.
C7_Witness ==
    /\ lastAction.type = "UPDATE_TOAST"
    /\ Len(PrevToasts) = 2
    /\ PrevToasts[1].id # PrevToasts[2].id
    /\ lastAction.toast = [id |-> PrevToasts[2].id, title |-> "Failed"]
    /\ ~Has(PrevToasts[2], "title")
    /\ ~PrevToasts[2].open
    /\ Toasts[2] = [id |-> PrevToasts[2].id, title |-> "Failed", open |-> FALSE]
    /\ Toasts[1] = PrevToasts[1]

\* C8: REMOVE(id) gives the records whose id is not id, in their order, none
\* of them changed; REMOVE with no id gives the empty list; when no record
\* has the id, as when the timer of an absent toast fires, the list is
\* unchanged.
C8_RemoveDeletesMatching ==
    lastAction.type = "REMOVE_TOAST" =>
        IF Has(lastAction, "toastId")
        THEN /\ Toasts = SelectSeq(PrevToasts, LAMBDA t : t.id # lastAction.toastId)
             /\ ~HasId(Toasts, lastAction.toastId)
             /\ ~HasId(PrevToasts, lastAction.toastId) => Toasts = PrevToasts
        ELSE Toasts = <<>>

\* A timer fired for an id that two records of the list had: both are gone.
C8_Witness ==
    /\ lastOp = "timer"
    /\ Len(PrevToasts) = 2
    /\ PrevToasts[1].id = lastAction.toastId
    /\ PrevToasts[2].id = lastAction.toastId
    /\ Toasts = <<>>

\* The timer of a toast that is not in the list fired: the list is as before.
C8_WitnessAbsent ==
    /\ lastOp = "timer"
    /\ PrevToasts # <<>>
    /\ ~HasId(PrevToasts, lastAction.toastId)
    /\ Toasts = PrevToasts

\* the number of calls the last dispatch made to listener c
Calls(c) == Cardinality({i \in 1..Len(notified) : notified[i].listener = c})

\* C9: a dispatch, whatever the action and whoever dispatches it, calls every
\* listener subscribed at that moment exactly once and nobody else, each with
\* the state the reducer returned, which is memoryState when dispatch returns.
C9_DispatchNotifiesEachListenerOnce ==
    lastAction # NoAction =>
        /\ \A c \in Components :
            Calls(c) = IF c \in Range(prev.listeners) THEN 1 ELSE 0
        /\ \A i \in 1..Len(notified) : notified[i].state = memoryState
        /\ \A c \in Range(prev.listeners) : compState[c] = memoryState

\* A timer's REMOVE took a record out of the list and both subscribed
\* components were called with the empty list.
C9_Witness ==
    /\ lastOp = "timer"
    /\ Len(prev.listeners) = 2
    /\ Len(notified) = 2
    /\ PrevToasts # <<>>
    /\ Toasts = <<>>
    /\ \A c \in Components : compState[c] = memoryState

\* C10: right after toast() the list is exactly the record added, whose id is
\* the returned handle's and whose open is true; the handle's dismiss() on a
\* list that holds the record leaves that record, closed and otherwise as it
\* was; the timer of an id firing on a list that holds its record leaves the
\* list empty.
C10_ToastDismissRemove ==
    /\ lastOp = "toast" =>
            /\ Len(Toasts) = 1
            /\ Toasts[1] = lastAction.toast
            /\ Toasts[1].id = returned
            /\ Toasts[1].open
            /\ returned \in handles
    /\ (lastOp = "dismiss" /\ DismissWithId /\ lastAction.toastId \in handles
            /\ HasId(PrevToasts, lastAction.toastId)) =>
            /\ Len(Toasts) = 1
            /\ Toasts[1].id = lastAction.toastId
            /\ ~Toasts[1].open
            /\ \A f \in DOMAIN PrevToasts[1] \ {"open"} : Toasts[1][f] = PrevToasts[1][f]
            /\ DOMAIN Toasts[1] = DOMAIN PrevToasts[1]
    /\ (lastOp = "timer" /\ HasId(PrevToasts, lastAction.toastId)) => Toasts = <<>>

\* The timer of the latest toast, dismissed through its handle, fired and the
\* list is empty.
C10_Witness ==
    /\ lastOp = "timer"
    /\ lastAction.toastId = returned
    /\ PrevToasts = <<[id |-> returned, title |-> "Saved", open |-> FALSE]>>
    /\ Toasts = <<>>

Ids(toasts) == {toasts[i].id : i \in 1..Len(toasts)}

\* the ids whose records the last step took out of the list
LeftIds == Ids(PrevToasts) \ Ids(Toasts)

\* the ids whose records the last step put into the list
EnteredIds == Ids(Toasts) \ Ids(PrevToasts)

\* C11 as stated: a record that is no longer in the list was taken out by the
\* firing of the removal timer of its id.
C11_LeavesOnlyByTimer ==
    \A id \in LeftIds : lastOp = "timer" /\ lastAction.toastId = id

\* C11 (amended): a record enters the list only through toast()'s ADD; it
\* leaves only when a later ADD truncates the list to TOAST_LIMIT or when the
\* removal timer of its id fires; and a removal timer is created only by a
\* DISMISS that covers its id (the id given, or, with no id or the empty
\* string, a record of the list).
C11_LeavesByTimerOrEviction ==
    /\ EnteredIds # {} => (lastOp = "toast" /\ EnteredIds = {returned})
    /\ \A id \in LeftIds :
        \/ lastOp = "toast" /\ lastAction.type = "ADD_TOAST"
        \/ /\ lastOp = "timer"
           /\ lastAction = [type |-> "REMOVE_TOAST", toastId |-> id]
           /\ Head(prev.timers) = id
    /\ \A id \in NewTimerIds :
        /\ lastAction.type = "DISMISS_TOAST"
        /\ IF Truthy(lastAction) THEN lastAction.toastId = id ELSE id \in Ids(PrevToasts)

\* A toast() call took an open record out of the list for whose id no timer
\* was pending.
C11_Witness ==
    /\ lastOp = "toast"
    /\ Len(PrevToasts) = 1
    /\ PrevToasts[1].open
    /\ PrevToasts[1].id \notin prev.toastTimeouts
    /\ LeftIds = {PrevToasts[1].id}
    /\ Toasts = <<lastAction.toast>>


-----------------------------------------------------------------------------
(* The editor of src/src/extensions/font-size.ts and line-height.ts        *)
(*                                                                         *)
(* A document is a sequence of block nodes.  A text block (paragraph,      *)
(* heading, codeBlock) holds its characters in the field text, one entry   *)
(* per character: the fontSize of the textStyle mark the character         *)
(* carries, or NoMark.  A container (blockquote) holds block nodes in the  *)
(* field content; a leaf (horizontalRule) holds nothing.  Positions are    *)
(* ProseMirror's: an opening and a closing token for every node that is    *)
(* not a leaf, one position per character, one per leaf.                   *)

\* line-height.ts:22-24 the options of the extension
types == {"paragraph", "heading"}

defaultLineHeight == "normal"

\* JavaScript's null as an attribute value, and a character without the mark
Null == "null"

NoMark == "no textStyle mark"

Max(a, b) == IF a > b THEN a ELSE b

RECURSIVE nodeSize(_), fragmentSize(_)

nodeSize(node) ==
    IF Has(node, "text") THEN Len(node.text) + 2
    ELSE IF Has(node, "content") THEN fragmentSize(node.content) + 2
    ELSE 1

fragmentSize(content) ==
    IF content = <<>> THEN 0
    ELSE nodeSize(Head(content)) + fragmentSize(Tail(content))

\* doc.nodesBetween(from, to, f) with an f that returns undefined: the calls
\* of f in order, each with the node and the position it starts at.  The
\* loop is the one of Fragment.nodesBetween: for (i = 0, pos = 0; pos < to;
\* i++), a child is visited when end > from, and its content is entered
\* when it has any.  The text nodes inside a text block are visited as well;
\* their type is "text", which no callback of the extensions acts on, so
\* they are left out of the result.
RECURSIVE nodesBetweenLoop(_, _, _, _, _, _)
nodesBetweenLoop(content, i, pos, from, to, nodeStart) ==
    IF ~(pos < to) \/ i > Len(content) THEN <<>>
    ELSE LET child == content[i]
             end   == pos + nodeSize(child)
             start == pos + 1
             inner == IF Has(child, "content") /\ fragmentSize(child.content) > 0
                      THEN nodesBetweenLoop(child.content, 1, 0,
                               Max(0, from - start),
                               Min(fragmentSize(child.content), to - start),
                               nodeStart + start)
                      ELSE <<>>
             here  == IF end > from
                      THEN <<[node |-> child, pos |-> nodeStart + pos]>> \o inner
                      ELSE <<>>
         IN  here \o nodesBetweenLoop(content, i + 1, end, from, to, nodeStart)

nodesBetween(doc, from, to) == nodesBetweenLoop(doc, 1, 0, from, to, 0)

\* tr.setNodeMarkup(pos, undefined, attrs): the node that starts at pos gets
\* attrs and keeps its type and content; content is the fragment that
\* starts at position 0.  No position shifts, since the node keeps its size.
RECURSIVE setNodeMarkup(_, _, _)
setNodeMarkup(content, pos, attrs) ==
    IF content = <<>> THEN content
    ELSE LET child == Head(content)
             size  == nodeSize(child)
         IN  IF pos = 0 THEN <<[child EXCEPT !.attrs = attrs]>> \o Tail(content)
             ELSE IF pos >= size
                  THEN <<child>> \o setNodeMarkup(Tail(content), pos - size, attrs)
             ELSE IF Has(child, "content")
                  THEN <<[child EXCEPT !.content =
                              setNodeMarkup(child.content, pos - 1, attrs)]>>
                       \o Tail(content)
             ELSE content

\* the attributes the callback of setLineHeight passes: { ...node.attrs, lineHeight }
lineHeightAttrsOnly(node, lineHeight) == [lineHeight |-> lineHeight]

lineHeightAttrs(node, lineHeight) == Spread(node.attrs, [lineHeight |-> lineHeight])

\* the callback of nodesBetween applied to each visit in turn; the visits
\* come from state.doc, the markup goes into the transaction's document
RECURSIVE markupEach(_, _, _)
markupEach(trDoc, visits, lineHeight) ==
    IF visits = <<>> THEN trDoc
    ELSE LET node == Head(visits).node
             pos  == Head(visits).pos
         IN  markupEach(IF node.type \in types
                        THEN setNodeMarkup(trDoc, pos, lineHeightAttrs(node, lineHeight))
                        ELSE trDoc,
                        Tail(visits), lineHeight)


\* the state of the editor: the document, the selection and the stored marks
EditorState(doc, from, to) ==
    [doc |-> doc, selection |-> [from |-> from, to |-> to], storedMarks |-> NoMark]

\* line-height.ts:65-87 and 92-113: the transaction the command builds.
\* tr.setSelection puts the selection of the state into the transaction and
\* drops the stored marks.
lineHeightTr(state, lineHeight) ==
    [doc |-> markupEach(state.doc,
                        nodesBetween(state.doc, state.selection.from, state.selection.to),
                        lineHeight),
     selection |-> state.selection,
     storedMarks |-> NoMark]

\* if (dispatch) dispatch(tr): the state after the command
applyAlways(state, tr, hasDispatch) == tr

applyIfDispatch(state, tr, hasDispatch) == IF hasDispatch THEN tr ELSE state

\* setMark("textStyle", { fontSize }) on the characters of a fragment that
\* starts at position base: the characters between from and to get the
\* attribute, unless their block allows no marks (codeBlock)
RECURSIVE markText(_, _, _, _, _)
markText(content, base, from, to, fontSize) ==
    IF content = <<>> THEN <<>>
    ELSE LET child == Head(content)
             rest  == markText(Tail(content), base + nodeSize(child), from, to, fontSize)
         IN  IF Has(child, "content")
             THEN <<[child EXCEPT !.content =
                         markText(child.content, base + 1, from, to, fontSize)]>> \o rest
             ELSE IF Has(child, "text") /\ child.type # "codeBlock"
             THEN <<[child EXCEPT !.text =
                         [k \in 1..Len(child.text) |->
                             IF from <= base + k /\ base + k + 1 <= to
                             THEN fontSize ELSE child.text[k]]]>> \o rest
             ELSE <<child>> \o rest

\* whether some character between from and to can take the mark
RECURSIVE canMarkText(_, _, _, _)
canMarkText(content, base, from, to) ==
    IF content = <<>> THEN FALSE
    ELSE LET child == Head(content)
         IN  \/ /\ Has(child, "content")
                /\ canMarkText(child.content, base + 1, from, to)
             \/ /\ Has(child, "text")
                /\ child.type # "codeBlock"
                /\ \E k \in 1..Len(child.text) : from <= base + k /\ base + k + 1 <= to
             \/ canMarkText(Tail(content), base + nodeSize(child), from, to)

\* font-size.ts:69 and 76: chain().setMark("textStyle", { fontSize }); the
\* transaction of the chain and what the command returned.  With an empty
\* selection the mark becomes a stored mark; without dispatch the
\* transaction is left alone.
setMark(state, fontSize, hasDispatch) ==
    LET from == state.selection.from
        to   == state.selection.to
    IN  IF from = to
        THEN [tr |-> IF hasDispatch THEN [state EXCEPT !.storedMarks = fontSize] ELSE state,
              result |-> TRUE]
        ELSE [tr |-> IF hasDispatch
                     THEN [state EXCEPT !.doc = markText(state.doc, 0, from, to, fontSize)]
                     ELSE state,
              result |-> canMarkText(state.doc, 0, from, to)]

\* what the member removeEmptyTextStyle of the chain can be: the arrow
\* function the chain makes for a registered command, a plain function, or
\* undefined when no extension registers the command
ChainMembers == {"arrow function", "function", "undefined"}

\* font-size.ts:77 .removeEmptyTextStyle.arguments: reading the property
\* arguments of the member.  Function.prototype.arguments throws for an
\* arrow or strict function, reads null for a plain function that is not
\* running, and undefined has no properties.
readArguments(member) ==
    IF member = "function" THEN Null ELSE "TypeError"

\* font-size.ts:77 .arguments(): calling what was read; null is not callable
callArguments(value) == "TypeError"

\* the outcome of a command as the caller sees it
Outcome(result) == IF result THEN "true" ELSE "false"


\* font-size.ts:44-55 renderHTML of the fontSize attribute
Falsy(value) == value \in {Null, ""}

fontSizeRenderHTML(attributes) ==
    IF Falsy(attributes.fontSize) THEN <<>>
    ELSE [style |-> "font-size: " \o attributes.fontSize]

\* line-height.ts:42-50 renderHTML of the lineHeight attribute
lineHeightRenderHTML(attributes) ==
    IF Falsy(attributes.lineHeight) THEN <<>>
    ELSE [style |-> "line-height: " \o attributes.lineHeight]

(* The documents, selections and arguments of the commands *)

MaxBlocks == 2

NoAttrs == <<>>

Paragraph(lineHeight, text) ==
    [type |-> "paragraph",
     attrs |-> [lineHeight |-> lineHeight, textAlign |-> "center"],
     text |-> text]

Heading(text) ==
    [type |-> "heading",
     attrs |-> [lineHeight |-> "2", textAlign |-> "left", level |-> "1"],
     text |-> text]

CodeBlock(text) == [type |-> "codeBlock", attrs |-> [language |-> "ts"], text |-> text]

Blockquote(content) == [type |-> "blockquote", attrs |-> NoAttrs, content |-> content]

HorizontalRule == [type |-> "horizontalRule", attrs |-> NoAttrs]

Blocks ==
    { Paragraph("normal", <<"12px", NoMark>>),
      Paragraph("2", <<>>),
      Heading(<<NoMark>>),
      CodeBlock(<<NoMark>>),
      HorizontalRule,
      Blockquote(<<Paragraph("2", <<"12px">>), Heading(<<NoMark>>)>>) }

Docs == UNION {[1..n -> Blocks] : n \in 1..MaxBlocks}

\* every node of a fragment that starts at position base, with the position
\* the node starts at
RECURSIVE Located(_, _)
Located(content, base) ==
    IF content = <<>> THEN {}
    ELSE LET child == Head(content)
         IN  {[node |-> child, pos |-> base]}
             \cup (IF Has(child, "content") THEN Located(child.content, base + 1) ELSE {})
             \cup Located(Tail(content), base + nodeSize(child))

\* the positions a text selection can end at: those inside a text block
TextPositions(doc) ==
    UNION {(l.pos + 1)..(l.pos + 1 + Len(l.node.text)) :
               l \in {n \in Located(doc, 0) : Has(n.node, "text")}}

\* a text selection (a cursor when from = to), or the whole document
Selections(doc) ==
    {[from |-> s[1], to |-> s[2]] :
         s \in {t \in TextPositions(doc) \X TextPositions(doc) : t[1] <= t[2]}}
    \cup {[from |-> 0, to |-> fragmentSize(doc)]}

EditorStates ==
    UNION {{EditorState(doc, s.from, s.to) : s \in Selections(doc)} : doc \in Docs}

LineHeights == {"1.5"}

FontSizes == {"20px"}

InitEditor ==
    /\ StoreIdle
    /\ editor \in {[state |-> s, cmd |-> "none"] : s \in EditorStates}
    /\ mobile = NoMobile
    /\ request = NoRequest

\* one command on the editor: the state it leaves, what the caller got back
\* and the number of transactions it dispatched
Command(name, arg, hasDispatch, after, result) ==
    /\ editor.cmd = "none"
    /\ Has(editor, "state")
    /\ editor' = [state |-> after, cmd |-> name, arg |-> arg,
                  hasDispatch |-> hasDispatch, result |-> result,
                  transactions |-> IF hasDispatch /\ result # "TypeError" THEN 1 ELSE 0,
                  before |-> editor.state]
    /\ UNCHANGED <<storeVars, mobile, request>>

\* font-size.ts:66-71
SetFontSize ==
    \E fontSize \in FontSizes, hasDispatch \in BOOLEAN :
        LET chain == setMark(editor.state, fontSize, hasDispatch)
        IN  Command("setFontSize", fontSize, hasDispatch, chain.tr, Outcome(chain.result))

\* font-size.ts:72-79: the chain is cut short by .removeEmptyTextStyle.arguments()
\* and run() is not reached, so the transaction of setMark is not dispatched
UnsetFontSize ==
    \E member \in ChainMembers, hasDispatch \in BOOLEAN :
        LET chain  == setMark(editor.state, Null, hasDispatch)
            thrown == callArguments(readArguments(member))
        IN  Command("unsetFontSize", Null, hasDispatch,
                    IF thrown = "TypeError" THEN editor.state ELSE chain.tr,
                    thrown)

\* line-height.ts:65-91
SetLineHeight ==
    \E lineHeight \in LineHeights, hasDispatch \in BOOLEAN :
        Command("setLineHeight", lineHeight, hasDispatch,
                applyIfDispatch(editor.state, lineHeightTr(editor.state, lineHeight),
                                hasDispatch),
                "true")

\* line-height.ts:92-117
UnsetLineHeight ==
    \E hasDispatch \in BOOLEAN :
        Command("unsetLineHeight", defaultLineHeight, hasDispatch,
                applyIfDispatch(editor.state,
                                lineHeightTr(editor.state, defaultLineHeight),
                                hasDispatch),
                "true")

NextEditor ==
    \/ SetFontSize
    \/ UnsetFontSize
    \/ SetLineHeight
    \/ UnsetLineHeight

SpecEditor == InitEditor /\ [][NextEditor]_vars


(* Properties of the editor commands *)

Ran(name) == editor.cmd = name

Dispatched(name) == Ran(name) /\ editor.hasDispatch

\* a located node and the selection: sharing a position, or lying inside
Overlaps(l, selection) ==
    l.pos < selection.to /\ l.pos + nodeSize(l.node) > selection.from

Within(l, selection) ==
    selection.from <= l.pos /\ l.pos + nodeSize(l.node) <= selection.to

NodeAt(doc, pos) == (CHOOSE l \in Located(doc, 0) : l.pos = pos).node

\* the fontSize entries of the characters between from and to
RECURSIVE SelectedText(_, _, _, _)
SelectedText(content, base, from, to) ==
    IF content = <<>> THEN {}
    ELSE LET child == Head(content)
         IN  (IF Has(child, "content") THEN SelectedText(child.content, base + 1, from, to)
              ELSE IF Has(child, "text")
              THEN {child.text[k] : k \in {j \in 1..Len(child.text) :
                                              from <= base + j /\ base + j + 1 <= to}}
              ELSE {})
             \cup SelectedText(Tail(content), base + nodeSize(child), from, to)

\* the paragraphs and headings the selection reaches
Qualifying(state) ==
    {l \in Located(state.doc, 0) : l.node.type \in types /\ Overlaps(l, state.selection)}

\* C12: setFontSize, unsetFontSize, setLineHeight and unsetLineHeight each
\* complete without raising an error and return a boolean, whatever the
\* editor state and the selection.
C12_CommandsReturnBoolean ==
    ~Ran("none") => editor.result \in {"true", "false"}

\* the line-height half of C13 on its own
UnsetLineHeightLeavesDefault ==
    Dispatched("unsetLineHeight") =>
        \A l \in Qualifying(editor.state) :
            /\ l.node.attrs.lineHeight = defaultLineHeight
            /\ lineHeightRenderHTML(l.node.attrs) = [style |-> "line-height: normal"]

\* C13: after unsetFontSize the fontSize of the selected text is null or
\* absent and renders as the empty mapping; after unsetLineHeight every
\* paragraph and heading of the selection has lineHeight "normal" and
\* renders as line-height: normal.
C13_UnsetLeavesDefault ==
    /\ Dispatched("unsetFontSize") =>
           \A fontSize \in SelectedText(editor.state.doc, 0,
                               editor.state.selection.from, editor.state.selection.to) :
               \/ fontSize = NoMark
               \/ /\ fontSize = Null
                  /\ fontSizeRenderHTML([fontSize |-> fontSize]) = <<>>
    /\ UnsetLineHeightLeavesDefault


LineHeightCommand == Dispatched("setLineHeight") \/ Dispatched("unsetLineHeight")

\* what a dispatched line-height command leaves alone: there is one
\* transaction, the selection is the same, the same positions hold nodes, and
\* each node has the type and the text it had
LineHeightFrame ==
    /\ editor.transactions = 1
    /\ editor.state.selection = editor.before.selection
    /\ {l.pos : l \in Located(editor.state.doc, 0)}
           = {l.pos : l \in Located(editor.before.doc, 0)}
    /\ \A l \in Located(editor.before.doc, 0) :
           LET after == NodeAt(editor.state.doc, l.pos)
           IN  /\ after.type = l.node.type
               /\ Has(after, "text") = Has(l.node, "text")
               /\ Has(after, "content") = Has(l.node, "content")
               /\ Has(l.node, "text") => after.text = l.node.text

\* C14 as stated: a dispatched setLineHeight(v) or unsetLineHeight() changes,
\* in one transaction, exactly the paragraphs and headings that lie within
\* the selection range [from, to]: each gets lineHeight = v (or the default)
\* and keeps its other attributes; every other node, the node types, the
\* content and the selection are unchanged.
C14_ChangesNodesWithinRange ==
    LineHeightCommand =>
        /\ LineHeightFrame
        /\ \A l \in Located(editor.before.doc, 0) :
               NodeAt(editor.state.doc, l.pos).attrs =
                   IF l.node.type \in types /\ Within(l, editor.before.selection)
                   THEN Spread(l.node.attrs, [lineHeight |-> editor.arg])
                   ELSE l.node.attrs

\* C14 (amended): the nodes changed are exactly the paragraphs and headings
\* that overlap the selection range, that is those that start before to and
\* end after from: a paragraph selected in part, and the one that holds the
\* cursor when from = to, are changed like one selected as a whole.  Each
\* gets lineHeight = v (or the default) and keeps its other attributes;
\* every other node, the node types, the content and the selection are
\* unchanged, and there is one transaction.
C14_ChangesNodesOverlappingRange ==
    LineHeightCommand =>
        /\ LineHeightFrame
        /\ \A l \in Located(editor.before.doc, 0) :
               NodeAt(editor.state.doc, l.pos).attrs =
                   IF l.node.type \in types /\ Overlaps(l, editor.before.selection)
                   THEN Spread(l.node.attrs, [lineHeight |-> editor.arg])
                   ELSE l.node.attrs

\* a cursor inside a paragraph or heading that has a sibling of a qualifying
\* type out of reach: the first is changed, the second is not
C14_Witness ==
    /\ Dispatched("setLineHeight")
    /\ editor.before.selection.from = editor.before.selection.to
    /\ \E l \in Qualifying(editor.before) :
           /\ ~Within(l, editor.before.selection)
           /\ l.node.attrs.lineHeight # editor.arg
           /\ NodeAt(editor.state.doc, l.pos).attrs.lineHeight = editor.arg
           /\ NodeAt(editor.state.doc, l.pos).attrs.textAlign = l.node.attrs.textAlign
    /\ \E l \in Located(editor.before.doc, 0) \ Qualifying(editor.before) :
           /\ l.node.type \in types
           /\ l.node.attrs.lineHeight # editor.arg

\* C15: setLineHeight and unsetLineHeight called without a dispatch function
\* leave the editor state as it was and still return true.
C15_DryRunChangesNothing ==
    ((Ran("setLineHeight") \/ Ran("unsetLineHeight")) /\ ~editor.hasDispatch) =>
        /\ editor.state = editor.before
        /\ editor.transactions = 0
        /\ editor.result = "true"

\* a dry run whose transaction differs from the state
C15_Witness ==
    /\ Ran("unsetLineHeight")
    /\ ~editor.hasDispatch
    /\ editor.result = "true"
    /\ lineHeightTr(editor.before, editor.arg).doc # editor.before.doc
    /\ editor.state = editor.before


-----------------------------------------------------------------------------
(* useIsMobile of src/src/extensions/line-height.ts:124-153                *)
(*                                                                         *)
(* The window has a width; the media query list made by the effect holds   *)
(* the result of its last evaluation (matches).  The browser evaluates the *)
(* media queries after a resize and fires "change" at a list whose result  *)
(* changed.  The hook returns a value only when the component renders, so  *)
(* the value a caller holds is that of the last render.                    *)

MOBILE_BREAKPOINT == 768

\* the widths the window can take: around the breakpoint, and far from it
Widths == {320, MOBILE_BREAKPOINT - 2, MOBILE_BREAKPOINT - 1, MOBILE_BREAKPOINT,
           MOBILE_BREAKPOINT + 1, 1024}

\* line-height.ts:141 window.matchMedia(`(max-width: ${MOBILE_BREAKPOINT - 1}px)`)
matchMedia(innerWidth) == innerWidth <= MOBILE_BREAKPOINT - 1

\* a measure that counts the breakpoint itself as mobile
isMobileAtOrBelow(innerWidth) == innerWidth <= MOBILE_BREAKPOINT

\* line-height.ts:143 and 146 window.innerWidth < MOBILE_BREAKPOINT
isMobileAt(innerWidth) == innerWidth < MOBILE_BREAKPOINT

\* the state values true and false of useState<boolean | undefined>
StateOf(b) == IF b THEN "true" ELSE "false"

\* line-height.ts:150 return !!isMobile
NotNot(isMobile) == isMobile = "true"

\* setIsMobile(value): a new value is stored and a render becomes due; the
\* same value changes nothing
setIsMobile(m, value, by) ==
    IF value = m.isMobile THEN m
    ELSE [m EXCEPT !.isMobile = value, !.dirty = TRUE, !.setBy = by]

\* one step of the component or of the window; before is the state value
\* the step found
MobileStep(op, m) ==
    /\ mobile' = [m EXCEPT !.lastOp = op, !.before = mobile.isMobile]
    /\ UNCHANGED <<storeVars, editor, request>>

\* the first render: useState(undefined), return !!isMobile
InitMobile ==
    /\ StoreIdle
    /\ editor = NoEditor
    /\ request = NoRequest
    /\ mobile \in {[pc |-> "rendered", isMobile |-> "undefined", value |-> NotNot("undefined"),
                    dirty |-> FALSE, innerWidth |-> w, matches |-> matchMedia(w),
                    listening |-> FALSE, setBy |-> "none", lastOp |-> "render",
                    before |-> "undefined"] : w \in Widths}

\* line-height.ts:140-148 the effect: matchMedia, addEventListener, first measure
MobileEffect ==
    /\ mobile.pc = "rendered"
    /\ MobileStep("effect",
           setIsMobile([mobile EXCEPT !.pc = "mounted",
                                      !.matches = matchMedia(mobile.innerWidth),
                                      !.listening = TRUE],
                       StateOf(isMobileAt(mobile.innerWidth)), "effect"))

\* the user resizes the window
Resize ==
    /\ mobile.pc # "none"
    /\ \E w \in Widths \ {mobile.innerWidth} :
           MobileStep("resize", [mobile EXCEPT !.innerWidth = w])

\* the browser evaluates the media query again; its result changed, so
\* "change" is fired and onChange (line-height.ts:142-144) runs if it is
\* still registered
MediaChange ==
    /\ mobile.pc \in {"mounted", "unmounted"}
    /\ mobile.matches # matchMedia(mobile.innerWidth)
    /\ LET evaluated == [mobile EXCEPT !.matches = matchMedia(mobile.innerWidth)]
       IN  MobileStep("change",
               IF mobile.listening
               THEN setIsMobile(evaluated, StateOf(isMobileAt(mobile.innerWidth)), "change")
               ELSE evaluated)

\* the render that a state change made due
MobileRender ==
    /\ mobile.pc = "mounted"
    /\ mobile.dirty
    /\ MobileStep("render", [mobile EXCEPT !.value = NotNot(mobile.isMobile),
                                           !.dirty = FALSE])

\* line-height.ts:147 cleanup: mql.removeEventListener("change", onChange)
MobileUnmount ==
    /\ mobile.pc = "mounted"
    /\ MobileStep("unmount", [mobile EXCEPT !.pc = "unmounted", !.listening = FALSE])

NextMobile ==
    \/ MobileEffect
    \/ Resize
    \/ MediaChange
    \/ MobileRender
    \/ MobileUnmount

SpecMobile == InitMobile /\ [][NextMobile]_vars

\* C16: useIsMobile always returns a boolean: false until the first
\* measurement; from then on, while the component is mounted and once every
\* media-query change event has been handled (and the render it asked for
\* is done), the value equals (width < 768); after unmount no change event
\* updates the state.
C16_IsMobileTracksWidth ==
    /\ mobile.value \in BOOLEAN
    /\ mobile.pc = "rendered" => mobile.value = FALSE
    /\ (/\ mobile.pc = "mounted"
        /\ ~mobile.dirty
        /\ mobile.matches = matchMedia(mobile.innerWidth))
           => mobile.value = (mobile.innerWidth < MOBILE_BREAKPOINT)
    /\ mobile.pc = "unmounted" =>
           /\ ~mobile.listening
           /\ mobile.isMobile = mobile.before

\* the window shrank to 767 after the first measurement, the change event
\* was handled and the component rendered again
C16_Witness ==
    /\ mobile.pc = "mounted"
    /\ mobile.setBy = "change"
    /\ mobile.lastOp = "render"
    /\ mobile.innerWidth = MOBILE_BREAKPOINT - 1
    /\ mobile.matches
    /\ mobile.value

\* after unmount the window crossed the breakpoint and the event found no listener
C16_WitnessUnmounted ==
    /\ mobile.pc = "unmounted"
    /\ mobile.lastOp = "change"
    /\ mobile.isMobile = "false"
    /\ mobile.innerWidth < MOBILE_BREAKPOINT


-----------------------------------------------------------------------------
(* The matcher of src/src/middleware.ts:5-14                               *)
(*                                                                         *)
(* A path is a string.  Each entry of config.matcher is a pattern the      *)
(* whole path has to match; the middleware runs when one entry matches.    *)

StartsWith(s, prefix) ==
    Len(s) >= Len(prefix) /\ SubSeq(s, 1, Len(prefix)) = prefix

EndsWith(s, suffix) ==
    Len(s) >= Len(suffix) /\ SubSeq(s, Len(s) - Len(suffix) + 1, Len(s)) = suffix

\* the string word stands in s at index i
At(s, i, word) ==
    i + Len(word) - 1 <= Len(s) /\ SubSeq(s, i, i + Len(word) - 1) = word

\* middleware.ts:9 the alternatives html?|css|jpe?g|webp|png|gif|svg|ttf|woff2?|
\* ico|csv|docx?|xlsx?|zip|webmanifest, each optional letter written out
Alternatives ==
    {"htm", "html", "css", "jpg", "jpeg", "webp", "png", "gif", "svg", "ttf",
     "woff", "woff2", "ico", "csv", "doc", "docx", "xls", "xlsx", "zip", "webmanifest"}

\* middleware.ts:9 (?:html?|css|js(?!on)|...) matched at index i of s
ExtensionAt(s, i) ==
    \/ \E word \in Alternatives : At(s, i, word)
    \/ At(s, i, "js") /\ ~At(s, i + 2, "on")

\* middleware.ts:9 the body of the negative lookahead, tried at the start of
\* s: _next, or [^?]*\.(?:...), that is a dot with no ? before it and one of
\* the alternatives right after it; nothing ties the alternative to the end
\* of s
Lookahead(s) ==
    \/ StartsWith(s, "_next")
    \/ \E i \in 1..Len(s) :
           /\ SubSeq(s, i, i) = "."
           /\ \A k \in 1..(i - 1) : SubSeq(s, k, k) # "?"
           /\ ExtensionAt(s, i + 1)

\* middleware.ts:9 '/((?!...).*)'
matcherPages(path) ==
    StartsWith(path, "/") /\ ~Lookahead(SubSeq(path, 2, Len(path)))

\* middleware.ts:11 '/(api|trpc)(.*)'
matcherApi(path) ==
    StartsWith(path, "/api") \/ StartsWith(path, "/trpc")

\* middleware.ts:7-12 the middleware runs when an entry of the matcher matches
matcher(path) == matcherPages(path) \/ matcherApi(path)

(* The request paths *)

Directories == {"/", "/api/", "/trpc/", "/_next/static/", "/documents/", "/blog/"}

FileNames == {"index", "node", "data"}

Endings == {"", ".js", ".json", ".css", ".html", ".png", ".txt", ".js-tips",
            ".docs", ".js/edit"}

Paths == {d \o f \o e : d \in Directories, f \in FileNames, e \in Endings}

InitMatcher ==
    /\ StoreIdle
    /\ editor = NoEditor
    /\ mobile = NoMobile
    /\ request \in {[path |-> p, matched |-> "none"] : p \in Paths}

\* a request comes in and the matcher decides whether the middleware runs
Match ==
    /\ request.matched = "none"
    /\ request' = [request EXCEPT !.matched = IF matcher(request.path) THEN "yes" ELSE "no"]
    /\ UNCHANGED <<storeVars, editor, mobile>>

NextMatcher == Match

SpecMatcher == InitMatcher /\ [][NextMatcher]_vars

\* the words of the claim: a path under _next, and a static asset, which is
\* a path that ends in a dot and a listed extension (json is not listed)
UnderNext(path) == StartsWith(path, "/_next")

StaticAsset(path) ==
    \E word \in Alternatives \cup {"js"} : EndsWith(path, "." \o word)

\* C17: the matcher selects a path when it begins with /api or /trpc,
\* whatever its extension; otherwise it selects the path exactly when the
\* path is neither under _next nor a static asset.
C17_MatcherSkipsOnlyStaticAssets ==
    request.matched # "none" =>
        (request.matched = "yes") =
            (\/ StartsWith(request.path, "/api")
             \/ StartsWith(request.path, "/trpc")
             \/ ~UnderNext(request.path) /\ ~StaticAsset(request.path))

\* the parts of C17 that hold: /api and /trpc are always selected, _next and
\* static assets elsewhere never are, and .json is selected
MatcherSkipsStaticAssets ==
    request.matched # "none" =>
        /\ (StartsWith(request.path, "/api") \/ StartsWith(request.path, "/trpc"))
               => request.matched = "yes"
        /\ (/\ ~StartsWith(request.path, "/api")
            /\ ~StartsWith(request.path, "/trpc")
            /\ UnderNext(request.path) \/ StaticAsset(request.path))
               => request.matched = "no"
        /\ (~UnderNext(request.path) /\ EndsWith(request.path, ".json"))
               => request.matched = "yes"


-----------------------------------------------------------------------------
(* The reducer's side effect, and the ids of a long-running application *)

\* C18: the reducer is pure: applying it changes nothing outside the state
\* it returns; it creates no timer and leaves toastTimeouts unchanged.
C18_ReducerIsPure ==
    lastOp = "dispatch" =>
        /\ toastTimeouts = prev.toastTimeouts
        /\ timers = prev.timers

\* toast() as often as the application likes: count wraps below
\* MAX_SAFE_INTEGER, so the guard of ToastUpTo never stops it
AnyToast == ToastUpTo(MAX_SAFE_INTEGER)

NextWrap ==
    \/ AnyToast
    \/ HandleUpdate
    \/ HandleDismiss
    \/ TimerFire

SpecWrap == Init /\ [][NextWrap]_vars

\* C19: the ids genId gives are unique for the lifetime of the application
\* (count wrapping below MAX_SAFE_INTEGER) and never empty, so a DISMISS with
\* a generated id never dismisses all, and a pending timer or an UPDATE of
\* one toast never acts on the record of another: the id the next toast()
\* gets was given to no earlier call, and the id a toast() call got is on no
\* record and on no timer that the call found.
C19_IdsUnique ==
    /\ toString(genId(count)) \notin handles
    /\ "" \notin handles
    /\ lastOp = "toast" =>
           /\ returned \notin Ids(PrevToasts)
           /\ returned \notin prev.toastTimeouts


\* the records of a list that have the id given
WithId(toasts, id) == {toasts[i] : i \in {j \in 1..Len(toasts) : toasts[j].id = id}}

\* the second half of C20 on its own: a timer firing removes no open record
TimerRemovesOnlyClosed ==
    lastOp = "timer" =>
        \A t \in WithId(PrevToasts, lastAction.toastId) : ~t.open

\* C20: whatever the interleaving of toast(), update(partial) with any
\* fields (open among them), dismiss with or without an id and timer
\* firings, every record of the list with open = false has a removal timer
\* pending for its id, and a record whose open is true is never removed by
\* a timer firing.
C20_ClosedHasTimerOpenStays ==
    /\ \A i \in 1..Len(Toasts) : ~Toasts[i].open => Toasts[i].id \in toastTimeouts
    /\ TimerRemovesOnlyClosed


-----------------------------------------------------------------------------
(* The components that call useToast() and the store *)

Occurrences(ls, c) == Cardinality({i \in 1..Len(ls) : ls[i] = c})

\* the parts of C21 about the listener list: a setter is in it at most once,
\* that of a subscribed component exactly once, and the setter of an
\* unmounted component is not in it and was not called by the last dispatch
SetterListedOnceWhileSubscribed ==
    \A c \in Components :
        /\ Occurrences(listeners, c) <= 1
        /\ pc[c] = "subscribed" => Occurrences(listeners, c) = 1
        /\ pc[c] = "unmounted" => (c \notin Range(listeners) /\ Calls(c) = 0)

\* C21: for every component that uses useToast, whatever the interleaving of
\* its mount (the initial read, later the effect that subscribes), its
\* re-subscription on a state change, its unmount and the dispatches: between
\* dispatches the local state of a mounted component equals memoryState (no
\* dispatch is missed between the initial read and the subscription), its
\* setter is in the listener list at most once, and after unmount the setter
\* is not in the list and is not called again.
C21_LocalStateFollowsStore ==
    /\ \A c \in Components : pc[c] # "unmounted" => compState[c] = memoryState
    /\ SetterListedOnceWhileSubscribed

====
